---- MODULE Spec2Model ----
(***************************************************************************)
(* A model of apa102_gpiod/apa102.py: the APA102 class (framebuffer,       *)
(* delta flag, bit-banged commit) and the module's pure helper functions.  *)
(*                                                                         *)
(* Bytes are naturals in 0..255, the framebuffer self._data is a sequence  *)
(* of bytes (Python offset k is element k+1), a LedOutput is a record      *)
(* [brt, r, g, b], and the line handle is represented by the sequence of   *)
(* (clock, data) pairs passed to its set_values().                         *)
(***************************************************************************)
EXTENDS Integers, Sequences, FiniteSets, TLC

VARIABLES
    _leds,           \* self._leds
    _data,           \* self._data (self._view is a view of the same bytes)
    _data_modified,  \* self._data_modified
    _wrgb_buffer,    \* self._wrgb_buffer
    released,       \* number of release() calls made on self._lines
    wave,           \* pair-writes accepted by set_values() during the last operation
    committed,      \* bytes the LEDs received in the last complete transmission
    last,           \* the last operation: its arguments and its outcome
    arg,            \* input of a helper function under SpecFn
    out,            \* output of that helper function
    thr             \* positions of the two threads under SpecThreads

vars == <<_leds, _data, _data_modified, _wrgb_buffer, released, wave, committed,
          last, arg, out, thr>>

obj == <<_leds, _data, _data_modified, _wrgb_buffer, released, wave, committed, last>>

(***************************************************************************)
(* Bounds of the model.                                                    *)
(***************************************************************************)
MaxLeds == 2
MaxN == 1000
MaxRelease == 2
MaxProbeLeds == 8
MaxSets == 1
MaxCommits == 2

(***************************************************************************)
(* Integer helpers: Python's |, & and >> on non-negative integers.         *)
(***************************************************************************)
RECURSIVE BitOr(_, _)
BitOr(a, b) ==
    IF a = 0 THEN b
    ELSE IF b = 0 THEN a
    ELSE 2 * BitOr(a \div 2, b \div 2) + (IF (a % 2) + (b % 2) > 0 THEN 1 ELSE 0)

RECURSIVE BitAnd(_, _)
BitAnd(a, b) ==
    IF a = 0 \/ b = 0 THEN 0
    ELSE 2 * BitAnd(a \div 2, b \div 2) + (IF (a % 2) + (b % 2) = 2 THEN 1 ELSE 0)

ShiftRight(a, k) == a \div (2 ^ k)

\* bytes * n for a bytes object
Repeat(s, n) == [k \in 1..(n * Len(s)) |-> s[((k - 1) % Len(s)) + 1]]

(***************************************************************************)
(* Module-level definitions of apa102.py.                                  *)
(***************************************************************************)
LedOutput(brt, r, g, b) == [brt |-> brt, r |-> r, g |-> g, b |-> b]

APA102_START == <<0, 0, 0, 0>>

\* The first failing test of _check_ledoutput_range, with the value its
\* message reports; field "" when the value passes.  Values are integers
\* here, so the isinstance tests hold.
_check_ledoutput_range(o) ==
    IF ~(0 <= o.brt /\ o.brt <= 31) THEN [field |-> "brightness", got |-> o.brt]
    ELSE IF ~(0 <= o.r /\ o.r <= 255) THEN [field |-> "red", got |-> o.r]
    ELSE IF ~(0 <= o.g /\ o.g <= 255) THEN [field |-> "green", got |-> o.r]
    ELSE IF ~(0 <= o.b /\ o.b <= 255) THEN [field |-> "blue", got |-> o.r]
    ELSE [field |-> "", got |-> 0]

\* faulty variant: every LED counted, the first one too
_generate_end_sequence_per_led(n) ==
    LET edges_required == n
        bytes_required ==
            IF edges_required # 0
            THEN (IF edges_required % 16 # 0
                  THEN (edges_required \div 16) + 1
                  ELSE edges_required \div 16)
            ELSE 0
    IN  [k \in 1..bytes_required |-> 0]

\* faulty variant: one more byte also when the edges fill whole bytes
_generate_end_sequence_round_up(n) ==
    LET edges_required == IF n # 0 THEN n - 1 ELSE 0
        bytes_required ==
            IF edges_required # 0 THEN (edges_required \div 16) + 1 ELSE 0
    IN  [k \in 1..bytes_required |-> 0]

_generate_end_sequence(n) ==
    LET edges_required == IF n # 0 THEN n - 1 ELSE 0
        bytes_required ==
            IF edges_required # 0
            THEN (IF edges_required % 16 # 0
                  THEN (edges_required \div 16) + 1
                  ELSE edges_required \div 16)
            ELSE 0
    IN  [k \in 1..bytes_required |-> 0]

_pack_wrgb(o) == <<BitOr(o.brt, 224), o.b, o.g, o.r>>

\* faulty variant: the colours stored in r, g, b order
_pack_wrgb_direct_rgb(d, o) ==
    [d EXCEPT ![1] = BitOr(o.brt, 224), ![2] = o.r, ![3] = o.g, ![4] = o.b]

\* faulty variant: the brightness stored without the 0xE0 marker
_pack_wrgb_direct_no_marker(d, o) ==
    [d EXCEPT ![1] = o.brt, ![2] = o.b, ![3] = o.g, ![4] = o.r]

_pack_wrgb_direct(d, o) ==
    [d EXCEPT ![1] = BitOr(o.brt, 224), ![2] = o.b, ![3] = o.g, ![4] = o.r]

\* faulty variant: the colours read in r, g, b order
_ledoutput_rgb_order(command) ==
    LedOutput(BitAnd(command[1], 31), command[2], command[3], command[4])

\* faulty variant: the marker bits left in the brightness
_ledoutput_unmasked(command) ==
    LedOutput(command[1], command[4], command[3], command[2])

_ledoutput_from_led_command(command) ==
    LedOutput(BitAnd(command[1], 31), command[4], command[3], command[2])

(***************************************************************************)
(* APA102 methods as operators on the object's fields.                     *)
(***************************************************************************)
\* self._view[4 + (i * 4):8 + (i * 4)] of a buffer d
LedSlice(d, i) == SubSeq(d, 5 + (i * 4), 8 + (i * 4))

\* faulty variant: no end sequence appended
NewData_no_end(n) == APA102_START \o Repeat(_pack_wrgb(LedOutput(0, 0, 0, 0)), n)

\* the framebuffer __init__ builds for n LEDs
NewData(n) == APA102_START \o Repeat(_pack_wrgb(LedOutput(0, 0, 0, 0)), n)
                           \o _generate_end_sequence(n)

\* faulty variant: negative indices let through
IndexInRange_no_lower_bound(i) == i < _leds

IndexInRange(i) == 0 <= i /\ i < _leds

getitem(i) == _ledoutput_from_led_command(LedSlice(_data, i))

\* __contains__: the for ... else loop over range(len(self))
\* faulty variant: only the first LED compared
contains_first_only(o) == _leds > 0 /\ _pack_wrgb(o) = LedSlice(_data, 0)

contains(o) == \E i \in 0..(_leds - 1) : _pack_wrgb(o) = LedSlice(_data, i)

\* faulty variant: the clock raised first and lowered second
BitWrites_clock_high_first(byte, k) ==
    LET bit == BitAnd(ShiftRight(byte, k), 1)
    IN  <<(<<1, bit>>), (<<0, bit>>)>>

\* the two set_values calls commit makes for bit k of a byte
BitWrites(byte, k) ==
    LET bit == BitAnd(ShiftRight(byte, k), 1)
    IN  <<(<<0, bit>>), (<<1, bit>>)>>

\* faulty variant: least significant bit first
ByteWrites_lsb_first(byte) ==
    BitWrites(byte, 0) \o BitWrites(byte, 1) \o BitWrites(byte, 2)
        \o BitWrites(byte, 3) \o BitWrites(byte, 4) \o BitWrites(byte, 5)
        \o BitWrites(byte, 6) \o BitWrites(byte, 7)

\* the sixteen set_values calls of one iteration of commit's loop
ByteWrites(byte) ==
    BitWrites(byte, 7) \o BitWrites(byte, 6) \o BitWrites(byte, 5)
        \o BitWrites(byte, 4) \o BitWrites(byte, 3) \o BitWrites(byte, 2)
        \o BitWrites(byte, 1) \o BitWrites(byte, 0)

\* faulty variant: the buffer sent from its last byte to its first
RECURSIVE BufferWrites_last_byte_first(_, _)
BufferWrites_last_byte_first(d, i) ==
    IF i > Len(d) THEN <<>>
    ELSE BufferWrites_last_byte_first(d, i + 1) \o ByteWrites(d[i])

\* all set_values calls of commit's loop over the buffer d, from offset i
RECURSIVE BufferWrites(_, _)
BufferWrites(d, i) ==
    IF i > Len(d) THEN <<>> ELSE ByteWrites(d[i]) \o BufferWrites(d, i + 1)

(***************************************************************************)
(* The receiving end of the two lines: a bit is taken at every rising      *)
(* clock edge, and eight bits make a byte, most significant bit first.     *)
(***************************************************************************)
\* the data bits of the writes lo..hi of w that raise the clock (the clock is
\* low before the first write: the lines are requested with values (0, 0))
RECURSIVE Sampled(_, _, _)
Sampled(w, lo, hi) ==
    IF lo > hi THEN <<>>
    ELSE IF lo = hi
    THEN (IF w[lo][1] = 1 /\ (lo = 1 \/ w[lo - 1][1] = 0) THEN <<w[lo][2]>> ELSE <<>>)
    ELSE LET mid == (lo + hi) \div 2
         IN  Sampled(w, lo, mid) \o Sampled(w, mid + 1, hi)

Received(w) ==
    LET bits == Sampled(w, 1, Len(w))
    IN  [k \in 1..(Len(bits) \div 8) |->
            bits[8 * k - 7] * 128 + bits[8 * k - 6] * 64 + bits[8 * k - 5] * 32
          + bits[8 * k - 4] * 16 + bits[8 * k - 3] * 8 + bits[8 * k - 2] * 4
          + bits[8 * k - 1] * 2 + bits[8 * k]]

(***************************************************************************)
(* Inputs the operations are called with.                                  *)
(***************************************************************************)
\* values written with Set
ValidOutputs == {LedOutput(0, 0, 0, 0), LedOutput(21, 2, 3, 4)}

\* values looked up with Contains: the written ones and one never written
SoughtOutputs == ValidOutputs \cup {LedOutput(31, 255, 128, 7)}

InvalidOutputs ==
    {LedOutput(32, 0, 0, 0), LedOutput(0, 256, 0, 0), LedOutput(0, 5, 256, 0),
     LedOutput(0, 5, 6, -1), LedOutput(-1, 300, 0, 0)}

Indices == -1.._leds

\* Numbers of set_values calls that succeed before one raises, for a commit
\* making n calls: a failure at the first and second write, at the end of the
\* first byte, at the start of the second, inside the third and at the last
\* write; n itself stands for no failure.
FailPoints(n) == {k \in {0, 1, 15, 16, 37, n - 1, n} : 0 <= k /\ k <= n}

\* the record kept in last: the call, the delta flag when it was made, the
\* exception it raised (with the field and value a ValueError reports) and
\* the value it returned
Call(op, i, o) ==
    [op |-> op, idx |-> i, val |-> o, pre |-> _data_modified, reset |-> FALSE,
     err |-> "none", field |-> "", got |-> 0,
     ret |-> LedOutput(0, 0, 0, 0), found |-> FALSE, num |-> 0]

(***************************************************************************)
(* Operations of an APA102 object.  No operation is modelled on a closed   *)
(* object except close() itself: the class leaves them undefined.          *)
(***************************************************************************)
\* faulty variant: the word written and the flag set without the comparison
set_unchecked_no_compare(i, o) ==
    /\ _wrgb_buffer' = _pack_wrgb_direct(_wrgb_buffer, o)
    /\ _data' = [k \in 1..Len(_data) |->
                   IF 5 + (i * 4) <= k /\ k <= 8 + (i * 4)
                   THEN _wrgb_buffer'[k - (4 + (i * 4))]
                   ELSE _data[k]]
    /\ _data_modified' = TRUE

\* faulty variant: the slice taken without the four bytes of the start frame
set_unchecked_no_start_offset(i, o) ==
    /\ _wrgb_buffer' = _pack_wrgb_direct(_wrgb_buffer, o)
    /\ IF _wrgb_buffer' # SubSeq(_data, 1 + (i * 4), 4 + (i * 4))
       THEN /\ _data' = [k \in 1..Len(_data) |->
                           IF 1 + (i * 4) <= k /\ k <= 4 + (i * 4)
                           THEN _wrgb_buffer'[k - (i * 4)]
                           ELSE _data[k]]
            /\ _data_modified' = TRUE
       ELSE UNCHANGED <<_data, _data_modified>>

\* faulty variant: the flag cleared when the buffer is back at what was sent
set_unchecked_clears_when_restored(i, o) ==
    /\ _wrgb_buffer' = _pack_wrgb_direct(_wrgb_buffer, o)
    /\ IF _wrgb_buffer' # LedSlice(_data, i)
       THEN /\ _data' = [k \in 1..Len(_data) |->
                           IF 5 + (i * 4) <= k /\ k <= 8 + (i * 4)
                           THEN _wrgb_buffer'[k - (4 + (i * 4))]
                           ELSE _data[k]]
            /\ _data_modified' = (_data' # committed)
       ELSE UNCHANGED <<_data, _data_modified>>

set_unchecked(i, o) ==
    /\ _wrgb_buffer' = _pack_wrgb_direct(_wrgb_buffer, o)
    /\ IF _wrgb_buffer' # LedSlice(_data, i)
       THEN /\ _data' = [k \in 1..Len(_data) |->
                           IF 5 + (i * 4) <= k /\ k <= 8 + (i * 4)
                           THEN _wrgb_buffer'[k - (4 + (i * 4))]
                           ELSE _data[k]]
            /\ _data_modified' = TRUE
       ELSE UNCHANGED <<_data, _data_modified>>

\* faulty variant: the index checked before the value
SetItem_index_first(i, o) ==
    LET c == _check_ledoutput_range(o)
    IN  /\ released = 0
        /\ wave' = <<>>
        /\ UNCHANGED <<_leds, released, committed, arg, out, thr>>
        /\ IF ~IndexInRange(i)
           THEN /\ last' = [Call("set", i, o) EXCEPT !.err = "IndexError"]
                /\ UNCHANGED <<_data, _data_modified, _wrgb_buffer>>
           ELSE IF c.field # ""
           THEN /\ last' = [Call("set", i, o) EXCEPT !.err = "ValueError",
                                !.field = c.field, !.got = c.got]
                /\ UNCHANGED <<_data, _data_modified, _wrgb_buffer>>
           ELSE /\ set_unchecked(i, o)
                /\ last' = Call("set", i, o)

SetItem(i, o) ==
    LET c == _check_ledoutput_range(o)
    IN  /\ released = 0
        /\ wave' = <<>>
        /\ UNCHANGED <<_leds, released, committed, arg, out, thr>>
        /\ IF c.field # ""
           THEN /\ last' = [Call("set", i, o) EXCEPT !.err = "ValueError",
                                !.field = c.field, !.got = c.got]
                /\ UNCHANGED <<_data, _data_modified, _wrgb_buffer>>
           ELSE IF ~IndexInRange(i)
           THEN /\ last' = [Call("set", i, o) EXCEPT !.err = "IndexError"]
                /\ UNCHANGED <<_data, _data_modified, _wrgb_buffer>>
           ELSE /\ set_unchecked(i, o)
                /\ last' = Call("set", i, o)

\* set_unchecked called directly, within its precondition (a valid index
\* and a valid value)
SetUnchecked(i, o) ==
    /\ released = 0
    /\ IndexInRange(i)
    /\ set_unchecked(i, o)
    /\ wave' = <<>>
    /\ last' = Call("set_unchecked", i, o)
    /\ UNCHANGED <<_leds, released, committed, arg, out, thr>>

\* faulty variant: the delta flag set by a read
GetItem_sets_flag(i) ==
    /\ released = 0
    /\ wave' = <<>>
    /\ last' = IF ~IndexInRange(i)
               THEN [Call("get", i, LedOutput(0, 0, 0, 0)) EXCEPT !.err = "IndexError"]
               ELSE [Call("get", i, LedOutput(0, 0, 0, 0)) EXCEPT !.ret = getitem(i)]
    /\ _data_modified' = TRUE
    /\ UNCHANGED <<_leds, _data, _wrgb_buffer, released, committed, arg, out, thr>>

GetItem(i) ==
    /\ released = 0
    /\ wave' = <<>>
    /\ last' = IF ~IndexInRange(i)
               THEN [Call("get", i, LedOutput(0, 0, 0, 0)) EXCEPT !.err = "IndexError"]
               ELSE [Call("get", i, LedOutput(0, 0, 0, 0)) EXCEPT !.ret = getitem(i)]
    /\ UNCHANGED <<_leds, _data, _data_modified, _wrgb_buffer, released, committed,
                   arg, out, thr>>

LenOp ==
    /\ released = 0
    /\ wave' = <<>>
    /\ last' = [Call("len", 0, LedOutput(0, 0, 0, 0)) EXCEPT !.num = _leds]
    /\ UNCHANGED <<_leds, _data, _data_modified, _wrgb_buffer, released, committed,
                   arg, out, thr>>

Contains(o) ==
    /\ released = 0
    /\ wave' = <<>>
    /\ last' = [Call("contains", 0, o) EXCEPT !.found = contains(o)]
    /\ UNCHANGED <<_leds, _data, _data_modified, _wrgb_buffer, released, committed,
                   arg, out, thr>>

\* faulty variant: the flag cleared also when a write raises
commit_loop_clears_on_error(w, ok) ==
    IF ok < Len(w)
    THEN /\ wave' = SubSeq(w, 1, ok)
         /\ last' = [Call("commit", 0, LedOutput(0, 0, 0, 0)) EXCEPT !.err = "IOError"]
         /\ _data_modified' = FALSE
         /\ UNCHANGED committed
    ELSE /\ wave' = w
         /\ _data_modified' = FALSE
         /\ committed' = Received(wave')
         /\ last' = Call("commit", 0, LedOutput(0, 0, 0, 0))

\* faulty variant: the exception of set_values caught and dropped
commit_loop_swallows_error(w, ok) ==
    IF ok < Len(w)
    THEN /\ wave' = SubSeq(w, 1, ok)
         /\ last' = Call("commit", 0, LedOutput(0, 0, 0, 0))
         /\ UNCHANGED <<_data_modified, committed>>
    ELSE /\ wave' = w
         /\ _data_modified' = FALSE
         /\ committed' = Received(wave')
         /\ last' = Call("commit", 0, LedOutput(0, 0, 0, 0))

\* the loop of commit(), where w is what it passes to set_values, call by
\* call, and call number ok + 1 raises OSError; with ok = Len(w) no call
\* raises and the statement after the loop runs
commit_loop(w, ok) ==
    IF ok < Len(w)
    THEN /\ wave' = SubSeq(w, 1, ok)
         /\ last' = [Call("commit", 0, LedOutput(0, 0, 0, 0)) EXCEPT !.err = "IOError"]
         /\ UNCHANGED <<_data_modified, committed>>
    ELSE /\ wave' = w
         /\ _data_modified' = FALSE
         /\ committed' = Received(wave')
         /\ last' = Call("commit", 0, LedOutput(0, 0, 0, 0))

\* faulty variant: the delta flag not consulted
commit_always ==
    \E w \in {BufferWrites(_data, 1)} :
        \E ok \in FailPoints(Len(w)) : commit_loop(w, ok)

commit ==
    IF _data_modified
    THEN \E w \in {BufferWrites(_data, 1)} :
             \E ok \in FailPoints(Len(w)) : commit_loop(w, ok)
    ELSE /\ wave' = <<>>
         /\ last' = Call("commit", 0, LedOutput(0, 0, 0, 0))
         /\ UNCHANGED <<_data_modified, committed>>

Commit ==
    /\ released = 0
    /\ commit
    /\ UNCHANGED <<_leds, _data, _wrgb_buffer, released, arg, out, thr>>

\* faulty variant: the lines never released
Close_no_release ==
    /\ released < MaxRelease
    /\ released' = released
    /\ wave' = <<>>
    /\ last' = Call("close", 0, LedOutput(0, 0, 0, 0))
    /\ UNCHANGED <<_leds, _data, _data_modified, _wrgb_buffer, committed, arg, out, thr>>

Close ==
    /\ released < MaxRelease
    /\ released' = released + 1
    /\ wave' = <<>>
    /\ last' = Call("close", 0, LedOutput(0, 0, 0, 0))
    /\ UNCHANGED <<_leds, _data, _data_modified, _wrgb_buffer, committed, arg, out, thr>>

(***************************************************************************)
(* The fields of the object __init__ returns for n LEDs.  With reset the   *)
(* commit of __init__ has run to its end: when it raises, no object is     *)
(* returned.                                                               *)
(***************************************************************************)
\* faulty variant: reset ignored
NewObject_no_commit(n, reset) ==
    [leds |-> n,
     data_modified |-> TRUE,
     data |-> NewData(n),
     wrgb_buffer |-> <<0, 0, 0, 0>>,
     wave |-> <<>>,
     committed |-> <<>>,
     last |-> [op |-> "init", idx |-> 0, val |-> LedOutput(0, 0, 0, 0),
               pre |-> TRUE, reset |-> reset, err |-> "none", field |-> "",
               got |-> 0, ret |-> LedOutput(0, 0, 0, 0), found |-> FALSE,
               num |-> n]]

NewObject(n, reset) ==
    LET d == NewData(n)
        w == IF reset THEN BufferWrites(d, 1) ELSE <<>>
    IN  [leds |-> n,
         data_modified |-> ~reset,
         data |-> d,
         wrgb_buffer |-> <<0, 0, 0, 0>>,
         wave |-> w,
         committed |-> IF reset THEN Received(w) ELSE <<>>,
         last |-> [op |-> "init", idx |-> 0, val |-> LedOutput(0, 0, 0, 0),
                   pre |-> TRUE, reset |-> reset, err |-> "none", field |-> "",
                   got |-> 0, ret |-> LedOutput(0, 0, 0, 0), found |-> FALSE,
                   num |-> n]]

Constructed(n, reset) ==
    \E o \in {NewObject(n, reset)} :
        /\ _leds = o.leds
        /\ _data = o.data
        /\ _data_modified = o.data_modified
        /\ _wrgb_buffer = o.wrgb_buffer
        /\ released = 0
        /\ wave = o.wave
        /\ committed = o.committed
        /\ last = o.last

NoArg == [fn |-> "", n |-> 0, v |-> LedOutput(0, 0, 0, 0), w |-> <<0, 0, 0, 0>>]
NoOut == [fn |-> "", bytes |-> <<>>, direct |-> <<>>, o |-> LedOutput(0, 0, 0, 0)]

\* no thread is inside an operation: cpc is the offset (from 1) of the next
\* byte of a commit in progress and 0 outside commit(), spc is the statement
\* of set_unchecked() the writing thread is at, on LED si, raced tells
\* whether one thread ever ran while the other was inside an operation, and
\* sets and commits count the calls made
NoThreads == [cpc |-> 0, spc |-> "idle", si |-> 0, raced |-> FALSE,
              sets |-> 0, commits |-> 0]

Init ==
    /\ \E n \in 0..MaxLeds : \E reset \in BOOLEAN : Constructed(n, reset)
    /\ arg = NoArg
    /\ out = NoOut
    /\ thr = NoThreads

Next ==
    \/ \E i \in Indices : \E o \in ValidOutputs \cup InvalidOutputs : SetItem(i, o)
    \/ \E i \in Indices : \E o \in ValidOutputs : SetUnchecked(i, o)
    \/ \E i \in Indices : GetItem(i)
    \/ LenOp
    \/ \E o \in SoughtOutputs : Contains(o)
    \/ Commit
    \/ Close

Spec == Init /\ [][Next]_vars

(***************************************************************************)
(* SpecFn: the helper functions, the constructor and a first Set, each     *)
(* applied once to an input drawn from a wide set.                         *)
(***************************************************************************)
Channels == {0, 1, 127, 128, 254, 255}

WideOutputs ==
    {LedOutput(brt, r, g, b) : brt \in 0..31, r \in Channels, g \in Channels,
                               b \in Channels}

\* 4-byte words, with every first byte
Words == {<<b0, b1, b2, b3>> : b0 \in 0..255, b1 \in {0, 128, 255},
                               b2 \in {0, 1, 255}, b3 \in {0, 127, 255}}

FnEnd ==
    /\ arg.fn = "end" /\ out.fn = ""
    /\ out' = [NoOut EXCEPT !.fn = "end", !.bytes = _generate_end_sequence(arg.n)]
    /\ UNCHANGED <<obj, arg, thr>>

\* _pack_wrgb, _pack_wrgb_direct on a fresh buffer, and the unpacking of the
\* packed word
FnPack ==
    /\ arg.fn = "pack" /\ out.fn = ""
    /\ out' = [fn |-> "pack",
               bytes |-> _pack_wrgb(arg.v),
               direct |-> _pack_wrgb_direct(<<0, 0, 0, 0>>, arg.v),
               o |-> _ledoutput_from_led_command(_pack_wrgb(arg.v))]
    /\ UNCHANGED <<obj, arg, thr>>

\* _ledoutput_from_led_command, and the packing of the unpacked value
FnUnpack ==
    /\ arg.fn = "unpack" /\ out.fn = ""
    /\ out' = [fn |-> "unpack",
               o |-> _ledoutput_from_led_command(arg.w),
               bytes |-> _pack_wrgb(_ledoutput_from_led_command(arg.w)),
               direct |-> <<>>]
    /\ UNCHANGED <<obj, arg, thr>>

\* APA102(chip, n, clk, data): a new object replaces the one at hand
FnNew ==
    /\ arg.fn = "new" /\ out.fn = ""
    /\ \E o \in {NewObject(arg.n, FALSE)} :
        /\ _leds' = o.leds
        /\ _data' = o.data
        /\ _data_modified' = o.data_modified
        /\ _wrgb_buffer' = o.wrgb_buffer
        /\ released' = 0
        /\ wave' = o.wave
        /\ committed' = o.committed
        /\ last' = o.last
    /\ out' = [NoOut EXCEPT !.fn = "new"]
    /\ UNCHANGED <<arg, thr>>

\* the first Set on the object at hand
FnSet ==
    /\ arg.fn = "set" /\ last.op = "init"
    /\ SetItem(arg.n, arg.v)

\* the commit that follows that Set, none of whose set_values calls raises
FnCommit ==
    /\ arg.fn = "set" /\ last.op = "set" /\ last.err = "none"
    /\ released = 0
    /\ _data_modified
    /\ \E w \in {BufferWrites(_data, 1)} : commit_loop(w, Len(w))
    /\ UNCHANGED <<_leds, _data, _wrgb_buffer, released, arg, out, thr>>

\* one iteration of commit's loop, for any value of the byte
FnByte ==
    /\ arg.fn = "byte" /\ out.fn = ""
    /\ wave' = ByteWrites(arg.n)
    /\ out' = [NoOut EXCEPT !.fn = "byte"]
    /\ UNCHANGED <<_leds, _data, _data_modified, _wrgb_buffer, released, committed,
                   last, arg, thr>>

\* the first item access on a new object of up to MaxProbeLeds LEDs
FnIndex ==
    /\ arg.fn = "new" /\ out.fn = "new" /\ last.op = "init"
    /\ _leds <= MaxProbeLeds
    /\ \E i \in Indices :
           \/ GetItem(i)
           \/ \E o \in ValidOutputs : SetItem(i, o)

InitFn ==
    /\ Constructed(MaxLeds, FALSE)
    /\ \/ \E n \in 0..MaxN : arg = [NoArg EXCEPT !.fn = "end", !.n = n]
       \/ \E n \in 0..MaxN : arg = [NoArg EXCEPT !.fn = "new", !.n = n]
       \/ \E v \in WideOutputs : arg = [NoArg EXCEPT !.fn = "pack", !.v = v]
       \/ \E w \in Words : arg = [NoArg EXCEPT !.fn = "unpack", !.w = w]
       \/ \E b \in 0..255 : arg = [NoArg EXCEPT !.fn = "byte", !.n = b]
       \/ \E i \in 0..(MaxLeds - 1) : \E v \in WideOutputs :
              arg = [NoArg EXCEPT !.fn = "set", !.n = i, !.v = v]
    /\ out = NoOut
    /\ thr = NoThreads

NextFn ==
    FnEnd \/ FnPack \/ FnUnpack \/ FnNew \/ FnSet \/ FnCommit \/ FnByte \/ FnIndex

SpecFn == InitFn /\ [][NextFn]_vars

(***************************************************************************)
(* Two threads on one object, which the class does nothing to keep apart:  *)
(* one calls commit(), the other __setitem__() with valid arguments.  A    *)
(* thread switch can fall between any two statements, so every statement   *)
(* that reads or writes the object is a step of its own; the sixteen       *)
(* set_values calls of one byte follow a single read of that byte and make *)
(* one step.  Here wave and committed describe the writes of the commit    *)
(* under way, and last is not kept.                                        *)
(***************************************************************************)
\* numbers of set_values calls of one byte that succeed before one raises
ByteFailPoints == {0, 9}

\* set_unchecked: the value packed into self._wrgb_buffer
ThrSetPack(i, o) ==
    /\ thr.spc = "idle" /\ thr.sets < MaxSets
    /\ released = 0
    /\ IndexInRange(i)
    /\ _wrgb_buffer' = _pack_wrgb_direct(_wrgb_buffer, o)
    /\ thr' = [thr EXCEPT !.spc = "compare", !.si = i, !.sets = @ + 1,
                          !.raced = @ \/ thr.cpc # 0]
    /\ UNCHANGED <<_leds, _data, _data_modified, released, wave, committed, last,
                   arg, out>>

\* set_unchecked: the packed word compared with the LED's slice of the view
ThrSetCompare ==
    /\ thr.spc = "compare"
    /\ thr' = [thr EXCEPT !.spc = IF _wrgb_buffer # LedSlice(_data, thr.si)
                                  THEN "store" ELSE "idle",
                          !.raced = @ \/ thr.cpc # 0]
    /\ UNCHANGED <<_leds, _data, _data_modified, _wrgb_buffer, released, wave,
                   committed, last, arg, out>>

\* set_unchecked: the packed word stored in the slice
ThrSetStore ==
    /\ thr.spc = "store"
    /\ _data' = [k \in 1..Len(_data) |->
                   IF 5 + (thr.si * 4) <= k /\ k <= 8 + (thr.si * 4)
                   THEN _wrgb_buffer[k - (4 + (thr.si * 4))]
                   ELSE _data[k]]
    /\ thr' = [thr EXCEPT !.spc = "flag", !.raced = @ \/ thr.cpc # 0]
    /\ UNCHANGED <<_leds, _data_modified, _wrgb_buffer, released, wave, committed,
                   last, arg, out>>

\* faulty variant: the flag left as it is
ThrSetFlag_skipped ==
    /\ thr.spc = "flag"
    /\ thr' = [thr EXCEPT !.spc = "idle", !.raced = @ \/ thr.cpc # 0]
    /\ UNCHANGED <<_leds, _data, _data_modified, _wrgb_buffer, released, wave,
                   committed, last, arg, out>>

\* set_unchecked: the delta flag set
ThrSetFlag ==
    /\ thr.spc = "flag"
    /\ _data_modified' = TRUE
    /\ thr' = [thr EXCEPT !.spc = "idle", !.raced = @ \/ thr.cpc # 0]
    /\ UNCHANGED <<_leds, _data, _wrgb_buffer, released, wave, committed, last,
                   arg, out>>

\* commit: the delta flag tested
ThrCommitTest ==
    /\ thr.cpc = 0 /\ thr.commits < MaxCommits
    /\ released = 0
    /\ wave' = <<>>
    /\ thr' = [thr EXCEPT !.cpc = IF _data_modified THEN 1 ELSE 0,
                          !.commits = @ + 1,
                          !.raced = @ \/ thr.spc # "idle"]
    /\ UNCHANGED <<_leds, _data, _data_modified, _wrgb_buffer, released, committed,
                   last, arg, out>>

\* commit: one iteration of the loop; it sends the byte or raises on the way
ThrCommitByte ==
    /\ thr.cpc \in 1..Len(_data)
    /\ \/ /\ wave' = wave \o ByteWrites(_data[thr.cpc])
          /\ thr' = [thr EXCEPT !.cpc = @ + 1, !.raced = @ \/ thr.spc # "idle"]
       \/ \E ok \in ByteFailPoints :
             /\ wave' = wave \o SubSeq(ByteWrites(_data[thr.cpc]), 1, ok)
             /\ thr' = [thr EXCEPT !.cpc = 0, !.raced = @ \/ thr.spc # "idle"]
    /\ UNCHANGED <<_leds, _data, _data_modified, _wrgb_buffer, released, committed,
                   last, arg, out>>

\* commit: the delta flag cleared after the loop
ThrCommitClear ==
    /\ thr.cpc = Len(_data) + 1
    /\ _data_modified' = FALSE
    /\ committed' = Received(wave)
    /\ thr' = [thr EXCEPT !.cpc = 0, !.raced = @ \/ thr.spc # "idle"]
    /\ UNCHANGED <<_leds, _data, _wrgb_buffer, released, wave, last, arg, out>>

InitThreads ==
    /\ \E n \in 0..MaxLeds : \E reset \in BOOLEAN : Constructed(n, reset)
    /\ arg = NoArg
    /\ out = NoOut
    /\ thr = NoThreads

NextThreads ==
    \/ \E i \in Indices : \E o \in ValidOutputs : ThrSetPack(i, o)
    \/ ThrSetCompare
    \/ ThrSetStore
    \/ ThrSetFlag
    \/ ThrCommitTest
    \/ ThrCommitByte
    \/ ThrCommitClear

SpecThreads == InitThreads /\ [][NextThreads]_vars

(***************************************************************************)
(* Properties.                                                             *)
(***************************************************************************)
\* the wire format of one LED: 0xE0 + brightness, blue, green, red
WireWord(o) == <<224 + o.brt, o.b, o.g, o.r>>

\* ceil(max(n - 1, 0) / 16)
EndFrameLen(n) == ((IF n > 1 THEN n - 1 ELSE 0) + 15) \div 16

\* d is a start frame, then the word of every LED, then the end frame
FrameLayout(d) ==
    /\ Len(d) = 4 + 4 * _leds + EndFrameLen(_leds)
    /\ \A k \in 1..4 : d[k] = 0
    /\ \A i \in 0..(_leds - 1) :
           LedSlice(d, i) = WireWord(_ledoutput_from_led_command(LedSlice(d, i)))
    /\ \A k \in (5 + 4 * _leds)..Len(d) : d[k] = 0

CommitDone == last.op = "commit" /\ last.err = "none"
SetDone == last.op \in {"set", "set_unchecked"} /\ last.err = "none"
ValueA == LedOutput(21, 2, 3, 4)

\* C1: a commit made with the delta flag set, none of whose writes fails,
\* clocks out the framebuffer byte for byte (start frame, LED words in index
\* order, end frame), once, and leaves the flag false.
C1_CommitTransmitsFramebuffer ==
    (CommitDone /\ last.pre) =>
        /\ Received(wave) = _data
        /\ Len(wave) = 16 * Len(_data)
        /\ FrameLayout(Received(wave))
        /\ _data_modified = FALSE

C1_Witness ==
    /\ CommitDone /\ last.pre
    /\ _leds = 2
    /\ Received(wave) = <<0, 0, 0, 0, 224, 0, 0, 0, 245, 4, 3, 2, 0>>

\* C2: a commit made with the delta flag clear makes no write and changes
\* nothing; the first complete commit of an object constructed without reset
\* transmits the whole buffer, and a commit right after a complete commit
\* transmits nothing.
C2_CleanCommitIsNoop ==
    [][ /\ (last'.op = "commit" /\ ~_data_modified) =>
               /\ wave' = <<>>
               /\ last'.err = "none"
               /\ UNCHANGED <<_leds, _data, _data_modified, _wrgb_buffer, released,
                              committed>>
        /\ (committed = <<>> /\ last'.op = "commit" /\ last'.err = "none") =>
               /\ Len(wave') = 16 * Len(_data)
               /\ Received(wave') = _data
        /\ (CommitDone /\ last'.op = "commit") => wave' = <<>>
      ]_vars

C2_Witness ==
    /\ CommitDone /\ ~last.pre
    /\ wave = <<>>
    /\ _leds = 2
    /\ committed = _data
    /\ ~_data_modified

\* C3: a Set or SetUnchecked whose packed word is the stored one leaves the
\* framebuffer and the delta flag as they are; one whose word differs stores
\* the word and sets the flag, and the commit that follows transmits.
C3_SetMarksOnlyChanges ==
    [][ /\ (last'.op \in {"set", "set_unchecked"} /\ last'.err = "none") =>
               IF LedSlice(_data, last'.idx) = WireWord(last'.val)
               THEN UNCHANGED <<_data, _data_modified>>
               ELSE /\ LedSlice(_data', last'.idx) = WireWord(last'.val)
                    /\ _data_modified' = TRUE
        /\ (SetDone /\ _data_modified /\ last'.op = "commit" /\ last'.err = "none") =>
               /\ Len(wave') = 16 * Len(_data)
               /\ Received(wave') = _data
      ]_vars

C3_Witness ==
    /\ SetDone
    /\ last.val = ValueA
    /\ _data_modified = FALSE
    /\ committed = _data

\* C4: whenever the delta flag is false the framebuffer is what the last
\* complete transmission carried; so the flag is true whenever an LED word
\* differs from the word last transmitted, also after commits that failed.
C4_CleanMeansTransmitted ==
    /\ ~_data_modified => _data = committed
    /\ (\E i \in 0..(_leds - 1) :
            committed = <<>> \/ LedSlice(_data, i) # LedSlice(committed, i))
           => _data_modified

C4_Witness ==
    /\ last.op = "commit" /\ last.err = "IOError"
    /\ _data_modified
    /\ committed # <<>>
    /\ committed # _data

\* C5: after Set(i, v) with a valid index and value, Get(i) is v, whatever
\* was set and committed before.
C5_GetReturnsWhatWasSet ==
    (last.op = "set" /\ last.err = "none") => getitem(last.idx) = last.val

C5_Witness ==
    /\ last.op = "set" /\ last.err = "none"
    /\ last.idx = 1 /\ last.val = ValueA
    /\ committed # <<>>
    /\ getitem(1) = ValueA

\* C6: after Set(i, (brightness, red, green, blue)) the bytes at offsets
\* 4+4i .. 4+4i+3 are 0xE0 | brightness, blue, green, red, and the in-place
\* packer leaves the word that _pack_wrgb returns; the two packers agree on
\* every valid value.
C6_WordLayout ==
    /\ (last.op = "set" /\ last.err = "none") =>
           /\ _data[4 + 4 * last.idx + 1] = 224 + last.val.brt
           /\ _data[4 + 4 * last.idx + 2] = last.val.b
           /\ _data[4 + 4 * last.idx + 3] = last.val.g
           /\ _data[4 + 4 * last.idx + 4] = last.val.r
           /\ _wrgb_buffer = _pack_wrgb(last.val)
    /\ out.fn = "pack" => (out.direct = out.bytes /\ out.bytes = WireWord(arg.v))

C6_Witness ==
    /\ last.op = "set" /\ last.err = "none"
    /\ last.idx = 1 /\ last.val = LedOutput(31, 254, 127, 1)
    /\ LedSlice(_data, 1) = <<255, 1, 127, 254>>

\* C7: unpack(pack(v)) = v for every valid LedOutput v, and
\* pack(unpack(w)) = w for every word w whose first byte has 111 as its top
\* three bits.
C7_PackUnpackInverse ==
    /\ out.fn = "pack" => out.o = arg.v
    /\ (out.fn = "unpack" /\ arg.w[1] \div 32 = 7) => out.bytes = arg.w

C7_Witness ==
    /\ out.fn = "unpack"
    /\ arg.w = <<245, 128, 1, 127>>
    /\ out.o = LedOutput(21, 127, 1, 128)
    /\ out.bytes = arg.w

\* C8: a new object for N LEDs holds four zero bytes, N words 0xE0 0 0 0
\* and the end frame of N, and Get(i) is (0, 0, 0, 0) for every i below N.
C8_NewFramebuffer ==
    last.op = "init" =>
        /\ _data = <<0, 0, 0, 0>>
                     \o [k \in 1..(4 * _leds) |-> IF k % 4 = 1 THEN 224 ELSE 0]
                     \o [k \in 1..EndFrameLen(_leds) |-> 0]
        /\ \A i \in 0..(_leds - 1) : getitem(i) = LedOutput(0, 0, 0, 0)

C8_Witness ==
    /\ last.op = "init" /\ out.fn = "new"
    /\ _leds = 18
    /\ Len(_data) = 78
    /\ getitem(17) = LedOutput(0, 0, 0, 0)

\* C9: the end frame of N LEDs has K = ceil(max(N - 1, 0) / 16) zero bytes:
\* 16 K >= max(N - 1, 0), K = 0 or 16 (K - 1) < max(N - 1, 0), and K = 0 for
\* N = 0 and N = 1.
C9_EndFrameMinimal ==
    out.fn = "end" =>
        LET K == Len(out.bytes)
            edges == IF arg.n - 1 > 0 THEN arg.n - 1 ELSE 0
        IN  /\ \A k \in 1..K : out.bytes[k] = 0
            /\ 16 * K >= edges
            /\ K = 0 \/ 16 * (K - 1) < edges
            /\ arg.n \in {0, 1} => K = 0

C9_Witness == out.fn = "end" /\ arg.n = 33 /\ out.bytes = <<0, 0>>

\* C10 as stated: the end frame of 0, 1, 2, 16, 17 and 1000 LEDs has 0, 0, 1,
\* 1, 2 and 63 bytes.
C10_Stated ==
    out.fn = "end" =>
        /\ arg.n = 0 => Len(out.bytes) = 0
        /\ arg.n = 1 => Len(out.bytes) = 0
        /\ arg.n = 2 => Len(out.bytes) = 1
        /\ arg.n = 16 => Len(out.bytes) = 1
        /\ arg.n = 17 => Len(out.bytes) = 2
        /\ arg.n = 1000 => Len(out.bytes) = 63

\* C10 amended: the end frame of 0, 1, 2, 16, 17 and 1000 LEDs has 0, 0, 1,
\* 1, 1 and 63 bytes (17 LEDs need 16 edges, which one byte provides; 18
\* LEDs are the first to need 2 bytes).
C10_EndFrameLengths ==
    out.fn = "end" =>
        /\ arg.n = 0 => Len(out.bytes) = 0
        /\ arg.n = 1 => Len(out.bytes) = 0
        /\ arg.n = 2 => Len(out.bytes) = 1
        /\ arg.n = 16 => Len(out.bytes) = 1
        /\ arg.n = 17 => Len(out.bytes) = 1
        /\ arg.n = 18 => Len(out.bytes) = 2
        /\ arg.n = 1000 => Len(out.bytes) = 63

C10_Witness == out.fn = "end" /\ arg.n = 17 /\ Len(out.bytes) = 1

(***************************************************************************)
(* The waveform, write by write.                                           *)
(***************************************************************************)
\* write number k of a transmission of d: the clock is low on odd writes and
\* high on even ones, and the data line carries bit 7 - ((k - 1) % 16) \div 2
\* of byte (k - 1) \div 16 of d
ExpectedWrite(d, k) ==
    <<(k - 1) % 2,
      (d[((k - 1) \div 16) + 1] \div (2 ^ (7 - (((k - 1) % 16) \div 2)))) % 2>>

\* the bits of a byte, bit 7 first
Bits(b) ==
    <<(b \div 128) % 2, (b \div 64) % 2, (b \div 32) % 2, (b \div 16) % 2,
      (b \div 8) % 2, (b \div 4) % 2, (b \div 2) % 2, b % 2>>

\* the data values of the writes of w that have the clock high
HighData(w) ==
    LET h == SelectSeq(w, LAMBDA p : p[1] = 1)
    IN  [k \in 1..Len(h) |-> h[k][2]]

\* the first field of o outside its range, in the order brightness, red,
\* green, blue; "" when o is valid
FirstInvalidField(o) ==
    IF o.brt < 0 \/ o.brt > 31 THEN "brightness"
    ELSE IF o.r < 0 \/ o.r > 255 THEN "red"
    ELSE IF o.g < 0 \/ o.g > 255 THEN "green"
    ELSE IF o.b < 0 \/ o.b > 255 THEN "blue"
    ELSE ""

\* the value o has in the named field
FieldValue(o, field) ==
    IF field = "brightness" THEN o.brt
    ELSE IF field = "red" THEN o.r
    ELSE IF field = "green" THEN o.g
    ELSE o.b

\* C11: in every transmission, complete or cut short by an error, the writes
\* come in pairs, one pair per bit: first clock low with the data line at the
\* bit, then clock high with the same data; so every clock-high write directly
\* follows a clock-low write with equal data.  A transmission of L bytes that
\* raises nothing makes exactly 16 * L writes.
C11_TwoWritesPerBit ==
    /\ \A k \in 1..Len(wave) :
          /\ wave[k][1] = (k - 1) % 2
          /\ wave[k][2] = ExpectedWrite(_data, k)[2]
          /\ wave[k][1] = 1 => k > 1 /\ wave[k - 1] = <<0, wave[k][2]>>
    /\ Len(wave) % 2 = 1 => last.err = "IOError"
    /\ CommitDone /\ last.pre => Len(wave) = 16 * Len(_data)
    /\ last.op = "init" /\ last.reset => Len(wave) = 16 * Len(_data)

\* a complete transmission of two LEDs; writes 65 and 66 carry the top bit
\* of the first LED's 0xE0 byte
C11_Witness ==
    /\ CommitDone /\ last.pre
    /\ _leds = 2
    /\ Len(wave) = 208
    /\ wave[65] = <<0, 1>> /\ wave[66] = <<1, 1>>
    /\ wave[67] = <<0, 1>> /\ wave[68] = <<1, 1>>

\* C12: bytes go out in buffer order, each most significant bit first: the
\* sixteen writes of byte k of the buffer hold exactly 8 clock-high writes,
\* whose data values are bit 7 down to bit 0 of that byte; for the byte 0x88
\* they are 1,0,0,0,1,0,0,0.
C12_BytesInOrderMsbFirst ==
    /\ out.fn = "byte" =>
          /\ Len(wave) = 16
          /\ HighData(wave) = Bits(arg.n)
          /\ arg.n = 136 => HighData(wave) = <<1, 0, 0, 0, 1, 0, 0, 0>>
    /\ CommitDone /\ last.pre =>
          /\ Len(wave) = 16 * Len(_data)
          /\ \A k \in 1..Len(_data) :
                HighData(SubSeq(wave, (16 * k) - 15, 16 * k)) = Bits(_data[k])

\* a commit after Set(1, (brightness 1, red 254, green 1, blue 128)): byte 10
\* of the buffer is the blue 0x80 and byte 12 the red 0xFE
C12_Witness ==
    /\ arg.fn = "set" /\ CommitDone /\ last.pre
    /\ LedSlice(_data, 1) = <<225, 128, 1, 254>>
    /\ HighData(SubSeq(wave, 145, 160)) = <<1, 0, 0, 0, 0, 0, 0, 0>>
    /\ HighData(SubSeq(wave, 177, 192)) = <<1, 1, 1, 1, 1, 1, 1, 0>>

\* C13: a Set whose value is out of range raises the validation error that
\* names the first invalid field in the order brightness, red, green, blue,
\* whatever the index (the value is checked before the index), and leaves
\* the framebuffer and the delta flag as they were.
C13_InvalidValueRejected ==
    [][(last'.op = "set" /\ FirstInvalidField(last'.val) # "") =>
           /\ last'.err = "ValueError"
           /\ last'.field = FirstInvalidField(last'.val)
           /\ UNCHANGED <<_data, _data_modified>>]_vars

\* green out of range (red in range) together with the index -1
C13_Witness ==
    /\ last.op = "set" /\ last.idx = -1
    /\ last.val = LedOutput(0, 5, 256, 0)
    /\ last.err = "ValueError" /\ last.field = "green"

\* C14: the validation error reports, next to the name of the field, the
\* invalid value of that same field, for each of the four fields.
C14_ErrorReportsFieldValue ==
    last.err = "ValueError" => last.got = FieldValue(last.val, last.field)

\* C15: Get(i) and Set(i, v) with a valid v raise the index error exactly
\* when i < 0 or i >= N (with N = 8: -1 and 8 fail, 0 and 7 succeed; with
\* N = 0 every index fails); the failing call leaves the framebuffer and the
\* delta flag as they were.
C15_IndexErrorExactlyOutOfRange ==
    [][(last'.op \in {"get", "set"} /\ FirstInvalidField(last'.val) = "") =>
           /\ last'.err = "IndexError" <=> (last'.idx < 0 \/ last'.idx >= _leds)
           /\ last'.err \in {"IndexError", "none"}
           /\ last'.err = "IndexError" => UNCHANGED <<_data, _data_modified>>
           /\ (_leds = 8 /\ last'.idx \in {-1, 8}) => last'.err = "IndexError"
           /\ (_leds = 8 /\ last'.idx \in {0, 7}) => last'.err = "none"
           /\ _leds = 0 => last'.err = "IndexError"]_vars

\* Get(8) on eight LEDs
C15_Witness ==
    /\ last.op = "get" /\ _leds = 8 /\ last.idx = 8
    /\ last.err = "IndexError"

\* C16: Contains(v) is true exactly when the stored word of some LED i,
\* 0 <= i < N, equals the packed v; so it is false for every v when N = 0 and
\* the start frame and the end frame never make a match.
C16_ContainsMatchesStoredWords ==
    last.op = "contains" =>
        /\ last.found <=>
               \E i \in 0..(_leds - 1) : LedSlice(_data, i) = WireWord(last.val)
        /\ _leds = 0 => ~last.found

\* the value sought is in the second LED and not in the first
C16_Witness ==
    /\ _leds = 2
    /\ last.op = "contains" /\ last.found
    /\ last.val = ValueA
    /\ LedSlice(_data, 0) # WireWord(ValueA)
    /\ LedSlice(_data, 1) = WireWord(ValueA)

\* C17: a commit that a failing write cuts short raises the I/O error and
\* leaves the delta flag true and the framebuffer as it was; the commit that
\* follows sends the framebuffer again from its first start-frame byte.
C17_FailedCommitKeepsFlag ==
    [][/\ (last'.op = "commit" /\ _data_modified /\ Len(wave') < 16 * Len(_data)) =>
              last'.err = "IOError"
       /\ (last'.op = "commit" /\ last'.err = "IOError") =>
              /\ _data_modified /\ _data_modified'
              /\ _data' = _data
       /\ (last.op = "commit" /\ last.err = "IOError" /\ last'.op = "commit") =>
              /\ \A k \in 1..Len(wave') : wave'[k] = ExpectedWrite(_data, k)
              /\ last'.err = "none" =>
                     /\ Len(wave') = 16 * Len(_data)
                     /\ Received(wave') = _data
                     /\ ~_data_modified']_vars

\* a commit cut short inside the first LED's word, which holds a colour
C17_Witness ==
    /\ _leds = 2
    /\ last.op = "commit" /\ last.err = "IOError"
    /\ Len(wave) = 37
    /\ _data_modified
    /\ LedSlice(_data, 0) = WireWord(ValueA)

\* C18: construction with reset makes one commit: the object comes back with
\* the zeroed framebuffer transmitted in full and the delta flag false, so
\* that a commit made at once sends nothing; construction without reset
\* makes no write at all and leaves the delta flag true.
C18_ResetCommitsOnce ==
    [][last.op = "init" =>
           IF last.reset
           THEN /\ ~_data_modified
                /\ Len(wave) = 16 * Len(_data)
                /\ Received(wave) = _data
                /\ committed = _data
                /\ FrameLayout(_data)
                /\ \A i \in 0..(_leds - 1) : LedSlice(_data, i) = <<224, 0, 0, 0>>
                /\ last'.op = "commit" =>
                       /\ wave' = <<>>
                       /\ UNCHANGED <<_data, _data_modified, committed>>
           ELSE /\ wave = <<>>
                /\ committed = <<>>
                /\ _data_modified]_vars

\* a new object of two LEDs made with reset
C18_Witness ==
    /\ last.op = "init" /\ last.reset
    /\ _leds = 2
    /\ Len(wave) = 208
    /\ ~_data_modified

\* C19 as stated: over any sequence of operations the number of release()
\* calls on the lines never exceeds one, and it is one after close.
C19_Stated ==
    /\ released <= 1
    /\ last.op = "close" => released = 1

\* C19: the lines are released by close() and by nothing else, once per
\* call: no release before the first close, exactly one after it, and one
\* more for every further close() (close does not remember that it ran).
C19_ReleasedOncePerClose ==
    [][/\ last'.op = "close" => released' = released + 1
       /\ (last'.op = "close" /\ last.op # "close") => released' = 1
       /\ last'.op # "close" => released' = released /\ released = 0]_vars

\* the object just closed, for the first time
C19_Witness == last.op = "close" /\ released = 1

\* neither thread is inside an operation, the delta flag is false, and the
\* framebuffer is not what the LEDs received
Stale ==
    /\ thr.cpc = 0 /\ thr.spc = "idle"
    /\ ~_data_modified
    /\ committed # _data

\* C20: with a Set running between the steps of a commit of the same object,
\* a state is reached where the delta flag is false although the framebuffer
\* differs from the bytes transmitted; as long as no operation ever ran
\* while the other thread was inside one (single-threaded use), no such
\* state is reached.
C20_StaleOnlyAfterInterleaving == Stale => thr.raced

\* the LEDs received the zero word for the first LED, the framebuffer holds
\* a colour there, and the flag is false
C20_Witness ==
    /\ Stale /\ thr.raced
    /\ _leds = 2
    /\ Len(committed) = Len(_data)
    /\ LedSlice(committed, 0) = <<224, 0, 0, 0>>
    /\ LedSlice(_data, 0) = WireWord(ValueA)

\* C21: whatever public operations are made (Set, Get, Contains, Length,
\* commit, with or without an error), the framebuffer keeps the length
\* 4 + 4N + K, Length() returns N, the four start-frame bytes and the K
\* end-frame bytes stay zero, and a Set(i, v) changes no LED word other than
\* the one at index i.
C21_FrameShapeKept ==
    [][/\ _leds' = _leds
       /\ Len(_data) = 4 + (4 * _leds) + EndFrameLen(_leds)
       /\ Len(_data') = Len(_data)
       /\ \A k \in 1..4 : _data'[k] = 0
       /\ \A k \in (5 + 4 * _leds)..Len(_data') : _data'[k] = 0
       /\ last'.op = "len" => last'.num = _leds /\ last'.err = "none"
       /\ last'.op \in {"set", "set_unchecked"} =>
              \A j \in 0..(_leds - 1) :
                  j # last'.idx => LedSlice(_data', j) = LedSlice(_data, j)]_vars

\* a Set on the second of two LEDs that left the first at its zero word
C21_Witness ==
    /\ _leds = 2
    /\ last.op = "set" /\ last.err = "none" /\ last.idx = 1
    /\ Len(_data) = 13
    /\ LedSlice(_data, 0) = <<224, 0, 0, 0>>
    /\ LedSlice(_data, 1) = WireWord(ValueA)
    /\ _data[13] = 0

\* C22: in every state reached by construction and validated Set calls the
\* first byte of every LED word is within 0xE0..0xFF (top three bits 111),
\* its low five bits are the brightness the LED was set to, and every LED
\* word the LEDs received carries the marker too.
C22_MarkerInEveryWord ==
    [][/\ \A i \in 0..(_leds - 1) :
              /\ _data[5 + (4 * i)] \in 224..255
              /\ _data'[5 + (4 * i)] \in 224..255
              /\ _data'[5 + (4 * i)] \div 32 = 7
              /\ committed' # <<>> => committed'[5 + (4 * i)] \div 32 = 7
       /\ (last.op = "init" /\ last'.op \notin {"set", "set_unchecked"}) =>
              \A i \in 0..(_leds - 1) : _data'[5 + (4 * i)] % 32 = 0
       /\ (last'.op \in {"set", "set_unchecked"} /\ last'.err = "none") =>
              /\ _data'[5 + (4 * last'.idx)] % 32 = last'.val.brt
              /\ \A i \in 0..(_leds - 1) :
                     i # last'.idx => _data'[5 + (4 * i)] = _data[5 + (4 * i)]]_vars

\* brightness 21 in the first LED, stored as 0xF5 and received as such
C22_Witness ==
    /\ _leds = 2
    /\ CommitDone /\ last.pre
    /\ _data[5] = 245
    /\ committed[5] = 245
    /\ _data[9] = 224

\* C23: the delta flag goes from true to false only in a commit that sends
\* the whole framebuffer and raises nothing; no Set clears it, so after an
\* LED is changed and set back to what was last transmitted the flag is
\* still true, and the commit that follows sends the whole framebuffer again.
C23_FlagClearedOnlyByCommit ==
    [][/\ (_data_modified /\ ~_data_modified') =>
              /\ last'.op = "commit" /\ last'.err = "none"
              /\ Len(wave') = 16 * Len(_data)
              /\ Received(wave') = _data
       /\ (last'.op \in {"set", "set_unchecked"} /\ _data_modified) =>
              _data_modified'
       /\ (last'.op \in {"set", "set_unchecked"} /\ _data' # _data) =>
              _data_modified'
       /\ (_data_modified /\ _data = committed
               /\ last'.op = "commit" /\ last'.err = "none") =>
              /\ Len(wave') = 16 * Len(_data)
              /\ Received(wave') = _data
              /\ ~_data_modified']_vars

\* the first LED was changed and then set back to the zero word the LEDs
\* hold: the framebuffer equals what was transmitted and the flag is true
C23_Witness ==
    /\ _leds = 2
    /\ last.op = "set" /\ last.err = "none" /\ last.idx = 0
    /\ last.val = LedOutput(0, 0, 0, 0)
    /\ last.pre
    /\ committed = _data
    /\ _data_modified

\* C24: Get, Length and Contains change neither the framebuffer nor the
\* delta flag and make no pair-write, so a commit that would send nothing
\* before them sends nothing after them; commit never changes the contents
\* of the framebuffer.
C24_ReadsChangeNothing ==
    [][/\ last'.op \in {"get", "len", "contains"} =>
              /\ UNCHANGED <<_leds, _data, _data_modified, committed>>
              /\ wave' = <<>>
       /\ (last.op \in {"get", "len", "contains"} /\ ~last.pre
               /\ last'.op = "commit") =>
              /\ wave' = <<>>
              /\ last'.err = "none"
       /\ last'.op = "commit" => _data' = _data]_vars

\* a Contains that finds its value on an object with nothing to send
C24_Witness ==
    /\ _leds = 2
    /\ last.op = "contains" /\ last.found
    /\ ~last.pre /\ ~_data_modified
    /\ wave = <<>>
    /\ committed = _data


====
